---- MODULE Spec2Model ----
(***************************************************************************)
(* Model of the post-inference stages of the lumina Triton pipeline:       *)
(*   tracker/1/model.py  - per-stream greedy IoU tracker (stateful)        *)
(*   postproc/1/model.py - greedy non-maximum suppression (pure)           *)
(*                                                                         *)
(* Boxes are <<x1, y1, x2, y2>> with integer coordinates.  Arithmetic on   *)
(* them is exact; an IoU value inter / (union + 1e-6) is carried as the    *)
(* pair <<inter, union>> and compared exactly, the 1e-6 included (see      *)
(* IouGT and IouGE).  Sequences are 1-based; the code's 0-based detection  *)
(* index j is kept as is and a row is read as rows[j + 1].  A row of a      *)
(* tensor of rank 3 is a matrix: its box is the 4 x c slice, flattened, so  *)
(* a box with more than 4 entries is one that _iou cannot take apart.       *)
(***************************************************************************)
EXTENDS Integers, Sequences, FiniteSets, TLC

VARIABLES
    iou_threshold,  \* tracker self.iou_threshold, a rational <<num, den>>
    max_age,        \* tracker self.max_age
    seq_tracks,     \* tracker self.seq_tracks: seq_id -> tracks in dict order
    next_id,        \* tracker self.next_id:    seq_id -> last id issued
    responses,      \* what the last execute call handed back to the host
    log,            \* history: one record per request of the last execute call
    issued,         \* history: per stream, every id ever given to a new Track
    nframes,        \* history: per stream, the number of frames processed
    ncalls,         \* history: the number of execute calls made to the tracker
    nms_in,         \* postproc _nms arguments: boxes, scores, iou_threshold
    nms_keep,       \* postproc _nms result: the list keep
    nms_pc,         \* "idle" (no call), "call" (arguments bound), "done", "again"
    nms_again,      \* postproc _nms result on the boxes the first call kept
    lb_orig,        \* a box of the original frame and the frame's size, or <<>>
    lb_meta,        \* letterbox_to_original argument meta
    lb_boxes,       \* letterbox_to_original argument boxes, as the caller holds it
    lb_out,         \* letterbox_to_original result
    lb_pc,          \* "idle", "frame" (original box bound), "call", "done"
    conf_threshold, \* postproc self.conf_threshold, in hundredths
    nms_threshold,  \* postproc self.iou_threshold, a rational <<num, den>>
    track_classes,  \* postproc self.track_classes
    pp_requests,    \* postproc execute argument requests
    pp_responses,   \* what postproc execute handed back to the host
    pp_pc,          \* "idle", "call" (requests bound), "done"
    live_feed,      \* host: per stream, the parity of the frames sent in a feed
    pt_req,         \* painter execute argument: the request's META and T* tensors
    pt_drawn,       \* painter: the rectangles drawn on the frame, one per box
    pt_pc,          \* "idle", "done"
    th,             \* host threads inside the tracker's execute: position and locals
    th_pre          \* history: store and id counter when the threads were started

vars == <<iou_threshold, max_age, seq_tracks, next_id, responses, log,
          issued, nframes, ncalls, nms_in, nms_keep, nms_pc, nms_again,
          lb_orig, lb_meta, lb_boxes, lb_out, lb_pc,
          conf_threshold, nms_threshold, track_classes, pp_requests,
          pp_responses, pp_pc, live_feed, pt_req, pt_drawn, pt_pc,
          th, th_pre>>

trackerVars == <<iou_threshold, max_age, seq_tracks, next_id, responses, log,
                 issued, nframes, ncalls>>

nmsVars == <<nms_in, nms_keep, nms_pc, nms_again>>

lbVars == <<lb_orig, lb_meta, lb_boxes, lb_out, lb_pc>>

ppVars == <<conf_threshold, nms_threshold, track_classes, pp_requests,
            pp_responses, pp_pc>>

feedVars == <<live_feed>>

ptVars == <<pt_req, pt_drawn, pt_pc>>

concVars == <<th, th_pre>>

sideVars == <<feedVars, ptVars, concVars>>

----------------------------------------------------------------------------
(* Bounds *)

MaxReq == 2
MaxBatch == 1
MaxDets == 2
MaxLbBoxes == 1
MaxCand == 6
MaxCalls == 2
MaxFailBatch == 2

----------------------------------------------------------------------------
(* Inputs *)

Streams == {1, 2}

\* the host threads that may be inside execute at the same time
Threads == {1, 2}

BoxA == <<0, 0, 4, 1>>
BoxB == <<1, 0, 5, 1>>
BoxD == <<4, 0, 8, 1>>

\* rows of YOLO_OUTPUT: [x1, y1, x2, y2, conf, cls], conf in hundredths
Rows ==
    { [box |-> BoxA, conf |-> 90, cls |-> 0],
      [box |-> BoxB, conf |-> 80, cls |-> 1],
      [box |-> BoxD, conf |-> 70, cls |-> 0] }

RECURSIVE SeqsUpTo(_, _)
SeqsUpTo(S, n) ==
    IF n = 0 THEN { <<>> }
    ELSE LET shorter == SeqsUpTo(S, n - 1)
         IN  shorter \cup { Append(q, x) : q \in { r \in shorter : Len(r) = n - 1 }, x \in S }

NoRepeat(q) == \A a, b \in DOMAIN q : a # b => q[a] # q[b]

\* a YOLO_OUTPUT tensor: wellformed = two-dimensional with at least 6 columns;
\* its rows are up to MaxDets different detections in any order
Tensors ==
    { [wellformed |-> TRUE, rows |-> r] :
        r \in { q \in SeqsUpTo(Rows, MaxDets) : NoRepeat(q) } }

Requests == [seq_id : Streams, yolo_output : Tensors]

IouThresholds == { <<-1, 2>>, <<0, 1>>, <<1, 2>> }
MaxAges == { -1, 0, 1 }

----------------------------------------------------------------------------
(* Helpers for Python containers *)

\* defaultdict read without insertion
DictGet(d, k, default) == IF k \in DOMAIN d THEN d[k] ELSE default

\* d[k] = v on a dict modelled as a function
DictPut(d, k, v) == [x \in (DOMAIN d) \cup {k} |-> IF x = k THEN v ELSE d[x]]

Max2(a, b) == IF a >= b THEN a ELSE b
Min2(a, b) == IF a <= b THEN a ELSE b

----------------------------------------------------------------------------
(* Track *)

\* variant: a track born with age 1
NewTrackAged(box, tid) == [box |-> box, id |-> tid, age |-> 1, miss |-> 0]

NewTrack(box, tid) == [box |-> box, id |-> tid, age |-> 0, miss |-> 0]

----------------------------------------------------------------------------
(* TritonPythonModel._iou (tracker) *)

IouZero == <<0, 1>>

_iou(a, b) ==
    LET inter_x1 == Max2(a[1], b[1])
        inter_y1 == Max2(a[2], b[2])
        inter_x2 == Min2(a[3], b[3])
        inter_y2 == Min2(a[4], b[4])
        iw == Max2(0, inter_x2 - inter_x1)
        ih == Max2(0, inter_y2 - inter_y1)
        inter == iw * ih
        area_a == (a[3] - a[1]) * (a[4] - a[2])
        area_b == (b[3] - b[1]) * (b[4] - b[2])
    IN  IF inter = 0 THEN IouZero
        ELSE <<inter, area_a + area_b - inter>>

\* p > q for p = p1/(p2 + eps), q = q1/(q2 + eps), eps = 1e-6, p2, q2 > 0:
\* p1*(q2 + eps) > q1*(p2 + eps), an integer plus eps * (p1 - q1)
IouGT(p, q) ==
    LET a == p[1] * q[2] - q[1] * p[2]
    IN  a > 0 \/ (a = 0 /\ p[1] > q[1])

\* p >= t for p = p1/(p2 + eps) and the rational t = t1/t2, t2 > 0:
\* p1*t2 - t1*p2 >= eps * t1, whose left side is an integer
IouGE(p, t) ==
    LET a == p[1] * t[2] - t[1] * p[2]
    IN  IF t[1] > 0 THEN a >= 1 ELSE a >= 0

----------------------------------------------------------------------------
(* TritonPythonModel.execute (tracker), the body of "for req in requests" *)

\* variant: every request lands in the store of stream 1
StreamOfShared(req) == 1

\* seq_id = int(seq_id_array.flatten()[0])
StreamOf(req) == req.seq_id

\* one entry of out_ids / out_boxes / out_cls / out_conf
Emit(tid, row) == [id |-> tid, box |-> row.box, cls |-> row.cls, conf |-> row.conf]

\* variant: entries put at the front of the output lists
EmittedFirst(out, tid, row) == <<Emit(tid, row)>> \o out

\* out_ids.append(..); out_boxes.append(..); out_cls.append(..); out_conf.append(..)
Emitted(out, tid, row) == Append(out, Emit(tid, row))

\* variant: the age increment left out
AgedNot(tr) == tr

\* tr.age += 1
Aged(tr) == [tr EXCEPT !.age = @ + 1]

\* max(ax1, bx1) raises ValueError when an operand is an array of several
\* elements, which is what unpacking a 4 x c slice gives
IouRaises(a, b) == Len(a) # 4 \/ Len(b) # 4

\* best_j of a search that _iou left with an exception
Raised == -2

\* inner loop "for j, db in enumerate(boxes)": <<best_iou, best_j>>
RECURSIVE BestFrom(_, _, _, _, _)
BestFrom(trbox, rows, used, j, best) ==
    IF j >= Len(rows) THEN best
    ELSE IF j \in used THEN BestFrom(trbox, rows, used, j + 1, best)
    ELSE IF IouRaises(trbox, rows[j + 1].box) THEN <<IouZero, Raised>>
    ELSE LET iou == _iou(trbox, rows[j + 1].box)
         IN  IF IouGT(iou, best[1])
             THEN BestFrom(trbox, rows, used, j + 1, <<iou, j>>)
             ELSE BestFrom(trbox, rows, used, j + 1, best)

\* variant: "if j in used: continue" left out of the search
BestMatchAmongAll(trbox, rows, used) == BestFrom(trbox, rows, {}, 0, <<IouZero, -1>>)

BestMatch(trbox, rows, used) == BestFrom(trbox, rows, used, 0, <<IouZero, -1>>)

\* variant: the threshold test left out
IsMatchAny(best, thr) == best[2] >= 0

\* if best_iou >= self.iou_threshold and best_j >= 0
IsMatch(best, thr) == IouGE(best[1], thr) /\ best[2] >= 0

\* variant: a match that forgets to move the box
UpdateMatchedKeepBox(tr, row) == [tr EXCEPT !.miss = 0]

\* tr.box = boxes[best_j]; tr.miss = 0
UpdateMatched(tr, row) == [tr EXCEPT !.box = row.box, !.miss = 0]

\* variant: the else branch left out
UpdateMissedNot(tr) == tr

\* tr.miss += 1
UpdateMissed(tr) == [tr EXCEPT !.miss = @ + 1]

\* "for tid, tr in list(tracks.items())", from the k-th track on
RECURSIVE MatchLoop(_, _, _, _)
MatchLoop(acc, k, rows, thr) ==
    IF k > Len(acc.tracks) THEN acc
    ELSE LET tr   == Aged(acc.tracks[k])
             best == BestMatch(tr.box, rows, acc.used)
         IN  IF best[2] = Raised
             THEN [acc EXCEPT !.tracks[k] = tr, !.raised = TRUE]
             ELSE IF IsMatch(best, thr)
             THEN MatchLoop(
                    [tracks  |-> [acc.tracks EXCEPT ![k] = UpdateMatched(tr, rows[best[2] + 1])],
                     used    |-> acc.used \cup {best[2]},
                     out     |-> Emitted(acc.out, tr.id, rows[best[2] + 1]),
                     matched |-> Append(acc.matched, <<tr.id, best[2]>>),
                     raised  |-> FALSE],
                    k + 1, rows, thr)
             ELSE MatchLoop(
                    [acc EXCEPT !.tracks[k] = UpdateMissed(tr)],
                    k + 1, rows, thr)

\* variant: ids drawn from a pool of two that wraps around
NextTidWrap(counter) == (counter % 2) + 1

\* self.next_id[seq_id] += 1; tid = self.next_id[seq_id]
NextTid(counter) == counter + 1

\* variant: "if j in used: continue" left out of the creation loop
RECURSIVE CreateLoopAll(_, _, _)
CreateLoopAll(acc, j, rows) ==
    IF j >= Len(rows) THEN acc
    ELSE LET tid == NextTid(acc.counter)
         IN  CreateLoopAll(
                [acc EXCEPT !.counter = tid,
                            !.tracks  = Append(@, NewTrack(rows[j + 1].box, tid)),
                            !.out     = Emitted(@, tid, rows[j + 1]),
                            !.created = Append(@, <<tid, j>>)],
                j + 1, rows)

\* "for j, db in enumerate(boxes)" creating tracks, from detection j on
RECURSIVE CreateLoop(_, _, _)
CreateLoop(acc, j, rows) ==
    IF j >= Len(rows) THEN acc
    ELSE IF j \in acc.used THEN CreateLoop(acc, j + 1, rows)
    ELSE LET tid == NextTid(acc.counter)
         IN  CreateLoop(
                [acc EXCEPT !.counter = tid,
                            !.tracks  = Append(@, NewTrack(rows[j + 1].box, tid)),
                            !.out     = Emitted(@, tid, rows[j + 1]),
                            !.created = Append(@, <<tid, j>>)],
                j + 1, rows)

\* variant: pruning with >= in place of >
KeepsEarly(tr, maxage) == ~(tr.miss >= maxage)

\* "if tracks[tid].miss > self.max_age: del tracks[tid]"
Keeps(tr, maxage) == ~(tr.miss > maxage)

Prune(tracks, maxage) == SelectSeq(tracks, LAMBDA tr : Keeps(tr, maxage))

\* lines 71-95: the matching pass over the stream's tracks
MatchPhase(tracks0, rows, thr) ==
    MatchLoop([tracks |-> tracks0, used |-> {}, out |-> <<>>, matched |-> <<>>,
               raised |-> FALSE],
              1, rows, thr)

\* lines 97-108: the creation pass, continuing from the matching pass m
\* unless that one was left by an exception
CreatePhase(m, counter0, rows) ==
    CreateLoop([tracks |-> m.tracks, used |-> m.used, out |-> m.out,
                matched |-> m.matched, counter |-> counter0, created |-> <<>>,
                raised |-> m.raised],
               IF m.raised THEN Len(rows) ELSE 0, rows)

\* lines 113-118: pruning, and what the pass leaves behind
PrunePhase(tracks0, counter0, c, maxage) ==
    [pre      |-> tracks0,
     mid      |-> c.tracks,
     post     |-> IF c.raised THEN c.tracks ELSE Prune(c.tracks, maxage),
     raised   |-> c.raised,
     counter0 |-> counter0,
     counter  |-> c.counter,
     out      |-> c.out,
     matched  |-> c.matched,
     created  |-> c.created]

\* the whole loop body for a tensor that lines 64-66 can slice: what it does
\* to the stream's track dict and id counter, and what it emits
Track1(tracks0, counter0, rows, thr, maxage) ==
    PrunePhase(tracks0, counter0,
               CreatePhase(MatchPhase(tracks0, rows, thr), counter0, rows),
               maxage)

----------------------------------------------------------------------------
(* TritonPythonModel.initialize / execute (tracker) *)

\* the lists of n requests the host may hand to execute
Batches(n) == [1..n -> Requests]

\* yolo_output[:, :4], yolo_output[:, 4], yolo_output[:, 5] raise IndexError
\* unless the tensor is two-dimensional with at least 6 columns
Raises(req) == ~req.yolo_output.wellformed

\* the effect of one pass r = Track1(..) on the model state and the history
StepWith(st, req, r) ==
    [seq_tracks |-> DictPut(st.seq_tracks, StreamOf(req), r.post),
     next_id    |-> IF r.created = <<>> THEN st.next_id
                    ELSE DictPut(st.next_id, StreamOf(req), r.counter),
     outs       |-> IF r.raised THEN st.outs ELSE Append(st.outs, r.out),
     raised     |-> r.raised,
     issued     |-> [st.issued EXCEPT ![req.seq_id] =
                        @ \o [k \in 1..Len(r.created) |-> r.created[k][1]]],
     nframes    |-> [st.nframes EXCEPT ![req.seq_id] = IF r.raised THEN @ ELSE @ + 1],
     log        |-> Append(st.log,
                      [seq_id |-> req.seq_id, rows |-> req.yolo_output.rows,
                       failed |-> r.raised,
                       pre |-> r.pre, mid |-> r.mid, post |-> r.post,
                       counter0 |-> r.counter0, counter |-> r.counter,
                       out |-> r.out, matched |-> r.matched,
                       created |-> r.created])]

\* one pass of "for req in requests" over a request whose tensor can be sliced
Step(st, req) ==
    StepWith(st, req,
             Track1(DictGet(st.seq_tracks, StreamOf(req), <<>>),
                    DictGet(st.next_id, StreamOf(req), 0),
                    req.yolo_output.rows, iou_threshold, max_age))

\* the pass over a request whose tensor cannot be sliced: the exception
\* leaves execute before line 67
Fail(st, req) ==
    [st EXCEPT !.raised = TRUE,
               !.log = Append(@,
                   [seq_id |-> req.seq_id, rows |-> <<>>, failed |-> TRUE,
                    pre |-> <<>>, mid |-> <<>>, post |-> <<>>,
                    counter0 |-> 0, counter |-> 0,
                    out |-> <<>>, matched |-> <<>>, created |-> <<>>])]

\* "for req in requests" from request i on; an exception ends it
RECURSIVE RunBatch(_, _, _)
RunBatch(st, requests, i) ==
    IF st.raised \/ i > Len(requests) THEN st
    ELSE IF Raises(requests[i]) THEN Fail(st, requests[i])
    ELSE RunBatch(Step(st, requests[i]), requests, i + 1)

\* initialize: the two defaultdicts start empty
TrackerInit(thr, maxage) ==
    /\ iou_threshold = thr
    /\ max_age = maxage
    /\ seq_tracks = << >>
    /\ next_id = << >>
    /\ responses = [raised |-> FALSE, outs |-> <<>>]
    /\ log = <<>>
    /\ issued = [s \in Streams |-> <<>>]
    /\ nframes = [s \in Streams |-> 0]
    /\ ncalls = 0

Execute(requests) ==
    /\ \E st \in { RunBatch([seq_tracks |-> seq_tracks, next_id |-> next_id,
                             outs |-> <<>>, raised |-> FALSE, issued |-> issued,
                             nframes |-> nframes, log |-> <<>>], requests, 1) } :
           /\ seq_tracks' = st.seq_tracks
           /\ next_id' = st.next_id
           /\ responses' = [raised |-> st.raised,
                            outs   |-> IF st.raised THEN <<>> ELSE st.outs]
           /\ log' = st.log
           /\ issued' = st.issued
           /\ nframes' = st.nframes
    /\ ncalls' = ncalls + 1
    /\ UNCHANGED <<iou_threshold, max_age>>

----------------------------------------------------------------------------
(* TritonPythonModel._calculate_iou / _nms (postproc) *)

BoxC == <<2, 0, 6, 1>>
BoxE == <<0, 0, 2, 1>>

NmsBoxes == { BoxA, BoxB, BoxC, BoxD, BoxE }
NmsScores == { 70, 80, 90 }
NmsThresholds == { <<0, 1>>, <<1, 2>> }
MaxNms == 3

\* variant: the union taken to be the area of the current box alone
_calculate_iou_own_area(box, other) ==
    LET inter_w == Max2(0, Min2(box[3], other[3]) - Max2(box[1], other[1]))
        inter_h == Max2(0, Min2(box[4], other[4]) - Max2(box[2], other[2]))
    IN  <<inter_w * inter_h, (box[3] - box[1]) * (box[4] - box[2])>>

\* one element of the vector _calculate_iou returns: inter / (union + 1e-6),
\* carried as <<inter, union>>; there is no early return for inter = 0
_calculate_iou(box, other) ==
    LET inter_x1 == Max2(box[1], other[1])
        inter_y1 == Max2(box[2], other[2])
        inter_x2 == Min2(box[3], other[3])
        inter_y2 == Min2(box[4], other[4])
        inter_w == Max2(0, inter_x2 - inter_x1)
        inter_h == Max2(0, inter_y2 - inter_y1)
        inter_area == inter_w * inter_h
        box_area == (box[3] - box[1]) * (box[4] - box[2])
        boxes_area == (other[3] - other[1]) * (other[4] - other[2])
    IN  <<inter_area, box_area + boxes_area - inter_area>>

\* the orders of the index set rem that put a lowest score first each time
RECURSIVE LeastFirst(_, _, _)
LeastFirst(scores, rem, acc) ==
    IF rem = {} THEN { acc }
    ELSE UNION { LeastFirst(scores, rem \ {m}, Append(acc, m)) :
                   m \in { x \in rem : \A y \in rem : scores[x + 1] <= scores[y + 1] } }

\* variant: the reversal [::-1] left out, lowest score first
ArgsortAscending(scores) == LeastFirst(scores, 0..(Len(scores) - 1), <<>>)

\* the orders of the index set rem that put a highest score first each time
RECURSIVE HighestFirst(_, _, _)
HighestFirst(scores, rem, acc) ==
    IF rem = {} THEN { acc }
    ELSE UNION { HighestFirst(scores, rem \ {m}, Append(acc, m)) :
                   m \in { x \in rem : \A y \in rem : scores[x + 1] >= scores[y + 1] } }

\* np.argsort(scores)[::-1]: the default sort kind is not stable, so every
\* order of the 0-based indices with non-increasing scores is a possible result
Argsort(scores) == HighestFirst(scores, 0..(Len(scores) - 1), <<>>)

\* variant: the comparison turned around
BelowFlipped(iou, thr) == IouGE(iou, thr)

\* variant: "<=" in place of "<"; the two differ for an IoU of exactly
\* iou_threshold, which inter / (union + 1e-6) reaches only at 0
BelowOrAt(iou, thr) == ~IouGE(iou, thr) \/ (thr[1] = 0 /\ iou[1] = 0)

\* ious < iou_threshold
Below(iou, thr) == ~IouGE(iou, thr)

\* "while len(indices) > 0"
RECURSIVE NmsLoop(_, _, _, _)
NmsLoop(boxes, indices, keep, thr) ==
    IF Len(indices) = 0 THEN keep
    ELSE LET current == indices[1]
             keep1   == Append(keep, current)
         IN  IF Len(indices) = 1 THEN keep1
             ELSE NmsLoop(boxes,
                    SelectSeq(Tail(indices),
                        LAMBDA i : Below(_calculate_iou(boxes[current + 1], boxes[i + 1]), thr)),
                    keep1, thr)

\* _nms once the argsort result is known
_nms(boxes, indices, thr) ==
    IF Len(boxes) = 0 THEN <<>> ELSE NmsLoop(boxes, indices, <<>>, thr)

NmsInputs ==
    UNION { [boxes : [1..n -> NmsBoxes], scores : [1..n -> NmsScores],
             iou_threshold : NmsThresholds] : n \in 0..MaxNms }

\* the call with three 10 x 10 boxes, two of them overlapping, threshold 0.5
NmsExample ==
    [boxes |-> << <<0, 0, 10, 10>>, <<1, 1, 11, 11>>, <<50, 50, 60, 60>> >>,
     scores |-> <<90, 80, 70>>,
     iou_threshold |-> <<1, 2>>]

NmsRun ==
    /\ nms_pc = "call"
    /\ \E indices \in Argsort(nms_in.scores) :
           nms_keep' = _nms(nms_in.boxes, indices, nms_in.iou_threshold)
    /\ nms_pc' = "done"
    /\ UNCHANGED <<nms_in, nms_again>>

\* boxes[keep] and scores[keep]: the first call's survivors, as a new input
KeptBoxes == [i \in 1..Len(nms_keep) |-> nms_in.boxes[nms_keep[i] + 1]]
KeptScores == [i \in 1..Len(nms_keep) |-> nms_in.scores[nms_keep[i] + 1]]

\* _nms called again on what the first call kept
NmsRerun ==
    /\ nms_pc = "done"
    /\ \E indices \in Argsort(KeptScores) :
           nms_again' = _nms(KeptBoxes, indices, nms_in.iou_threshold)
    /\ nms_pc' = "again"
    /\ UNCHANGED <<nms_in, nms_keep>>

NmsIdle ==
    /\ nms_in = [boxes |-> <<>>, scores |-> <<>>, iou_threshold |-> <<0, 1>>]
    /\ nms_keep = <<>>
    /\ nms_pc = "idle"
    /\ nms_again = <<>>

----------------------------------------------------------------------------
(* Numbers that are not integers: a rational is <<num, den>> in lowest terms *)
(* with den > 0.  Arithmetic on them is exact.                               *)

Abs(a) == IF a < 0 THEN -a ELSE a

RECURSIVE GCD(_, _)
GCD(a, b) == IF b = 0 THEN a ELSE GCD(b, a % b)

RNorm(n, d) ==
    LET g == GCD(Abs(n), Abs(d))
        sg == IF d < 0 THEN -1 ELSE 1
    IN  <<sg * (n \div g), sg * (d \div g)>>

RInt(a) == <<a, 1>>
RSub(p, q) == RNorm(p[1] * q[2] - q[1] * p[2], p[2] * q[2])
RAdd(p, q) == RNorm(p[1] * q[2] + q[1] * p[2], p[2] * q[2])
RMul(p, q) == RNorm(p[1] * q[1], p[2] * q[2])
RDiv(p, q) == RNorm(p[1] * q[2], p[2] * q[1])
RLe(p, q) == p[1] * q[2] <= q[1] * p[2]
RLt(p, q) == p[1] * q[2] < q[1] * p[2]
RMin(p, q) == IF RLe(p, q) THEN p ELSE q
RMax(p, q) == IF RLe(q, p) THEN p ELSE q

\* Python round(): to the nearest integer, a half to the even neighbour
PyRound(p) ==
    LET lo == p[1] \div p[2]
        twice == 2 * (p[1] % p[2])
    IN  IF twice < p[2] THEN lo
        ELSE IF twice > p[2] THEN lo + 1
        ELSE IF lo % 2 = 0 THEN lo ELSE lo + 1

----------------------------------------------------------------------------
(* preproc: the letterbox parameters of a frame (execute, lines 25-45) *)

IMG_SIZE == 640

\* meta[:9] for a frame of ih rows and iw columns
PreprocMeta(ih, iw) ==
    LET scale == RMin(RNorm(IMG_SIZE, iw), RNorm(IMG_SIZE, ih))
        ow == PyRound(RMul(RInt(iw), scale))
        oh == PyRound(RMul(RInt(ih), scale))
        pad_t == (IMG_SIZE - oh) \div 2
        pad_l == (IMG_SIZE - ow) \div 2
    IN  [ih |-> ih, iw |-> iw, oh |-> oh, ow |-> ow, scale |-> scale,
         pad_t |-> pad_t, pad_l |-> pad_l,
         pad_b |-> IMG_SIZE - oh - pad_t, pad_r |-> IMG_SIZE - ow - pad_l]

\* where the letterbox puts a point of the original frame on the canvas:
\* the frame is resized by scale and pasted at (pad_l, pad_t)
ToCanvas(box, meta) ==
    << RAdd(RMul(box[1], meta.scale), RInt(meta.pad_l)),
       RAdd(RMul(box[2], meta.scale), RInt(meta.pad_t)),
       RAdd(RMul(box[3], meta.scale), RInt(meta.pad_l)),
       RAdd(RMul(box[4], meta.scale), RInt(meta.pad_t)) >>

----------------------------------------------------------------------------
(* letterbox_to_original (postproc) *)

\* variant: clipping to the frame size itself, one past the last pixel
ClipToSize(v, lo, hi) == RMin(RMax(v, RInt(lo)), RInt(hi + 1))

\* np.clip(v, lo, hi) = minimum(maximum(v, lo), hi)
Clip(v, lo, hi) == RMin(RMax(v, RInt(lo)), RInt(hi))

\* variant: no copy, the arithmetic is done on the caller's array
CallerArrayAliased(boxes, out) == out

\* out = boxes.copy(): what the caller's array holds after the call
CallerArray(boxes, out) == boxes

\* variant: the top padding taken off x and the left padding off y
ToOriginalRowSwappedPads(b, meta) ==
    << Clip(RDiv(RSub(b[1], RInt(meta.pad_t)), meta.scale), 0, meta.iw - 1),
       Clip(RDiv(RSub(b[2], RInt(meta.pad_l)), meta.scale), 0, meta.ih - 1),
       Clip(RDiv(RSub(b[3], RInt(meta.pad_t)), meta.scale), 0, meta.iw - 1),
       Clip(RDiv(RSub(b[4], RInt(meta.pad_l)), meta.scale), 0, meta.ih - 1) >>

\* one row of out after lines 23-29
ToOriginalRow(b, meta) ==
    << Clip(RDiv(RSub(b[1], RInt(meta.pad_l)), meta.scale), 0, meta.iw - 1),
       Clip(RDiv(RSub(b[2], RInt(meta.pad_t)), meta.scale), 0, meta.ih - 1),
       Clip(RDiv(RSub(b[3], RInt(meta.pad_l)), meta.scale), 0, meta.iw - 1),
       Clip(RDiv(RSub(b[4], RInt(meta.pad_t)), meta.scale), 0, meta.ih - 1) >>

\* the returned array, and the argument array as the call leaves it
letterbox_to_original(boxes, meta) ==
    LET out == [i \in DOMAIN boxes |-> ToOriginalRow(boxes[i], meta)]
    IN  [out |-> out, boxes |-> CallerArray(boxes, out)]

\* frames as <<ih, iw>>: landscape, portrait, square, one that is enlarged and
\* one whose resized height is rounded
FrameSizes == { <<720, 1280>>, <<640, 480>>, <<640, 640>>, <<6, 8>>, <<333, 1001>> }

\* metadata that no letterbox of preproc produces
OddMeta ==
    [ih |-> 480, iw |-> 640, oh |-> 100, ow |-> 100, scale |-> <<3, 2>>,
     pad_t |-> 7, pad_l |-> -3, pad_b |-> 0, pad_r |-> 0]

LbMetas == { PreprocMeta(f[1], f[2]) : f \in FrameSizes } \cup { OddMeta }

\* canvas coordinates, also off the canvas
CanvasCoords == { <<-5, 1>>, <<641, 2>>, <<10000, 1>> }

CanvasBoxes == CanvasCoords \X CanvasCoords \X CanvasCoords \X CanvasCoords

\* coordinates in [0, len) on the quarter-pixel grid, near both ends
AxisCoords(len) == { <<0, 1>>, <<1, 4>> } \cup { RNorm(4 * len - j, 4) : j \in 1..4 }

OrigBoxes(ih, iw) ==
    AxisCoords(iw) \X AxisCoords(ih) \X AxisCoords(iw) \X AxisCoords(ih)

LbIdle ==
    /\ lb_orig = <<>>
    /\ lb_meta = <<>>
    /\ lb_boxes = <<>>
    /\ lb_out = <<>>
    /\ lb_pc = "idle"

\* preproc letterboxes the frame; the box is carried to canvas coordinates
LbForward ==
    /\ lb_pc = "frame"
    /\ \E meta \in { PreprocMeta(lb_orig.ih, lb_orig.iw) } :
           /\ lb_meta' = meta
           /\ lb_boxes' = << ToCanvas(lb_orig.box, meta) >>
    /\ lb_pc' = "call"
    /\ UNCHANGED <<lb_orig, lb_out>>

LbToOriginal ==
    /\ lb_pc = "call"
    /\ \E r \in { letterbox_to_original(lb_boxes, lb_meta) } :
           /\ lb_out' = r.out
           /\ lb_boxes' = r.boxes
    /\ lb_pc' = "done"
    /\ UNCHANGED <<lb_orig, lb_meta>>

----------------------------------------------------------------------------
(* TritonPythonModel.initialize / execute (postproc) *)

\* A YOLO_RAW tensor is [rank, shape, at]: rank 3 carries a leading batch
\* dimension of 1 around the matrix, rank 1 is a plain vector; shape is that
\* of the matrix and at its rows.  Entries are even integers (scores in
\* hundredths), so that the halves of lines 104-107 are integers too.

\* a candidate: cx, cy, w, h and the scores of two classes
CandA == <<4, 2, 8, 4, 90, 10>>
CandB == <<6, 2, 8, 4, 20, 80>>
CandC == <<20, 2, 8, 4, 20, 20>>

Cands == { CandA, CandB, CandC }

Transposed(m) ==
    [shape |-> <<m.shape[2], m.shape[1]>>,
     at    |-> [j \in 1..m.shape[2] |-> [i \in 1..m.shape[1] |-> m.at[i][j]]]]

\* the matrix whose rows are the candidates q
RowsOf(q) == [shape |-> <<Len(q), 6>>, at |-> q]

\* the tensors the detector may hand over for the candidates q: one candidate
\* per row or per column, the latter also inside a batch dimension
TensorsOf(q) ==
    { [rank |-> 2, shape |-> m.shape, at |-> m.at] :
        m \in { RowsOf(q), Transposed(RowsOf(q)) } }
    \cup { [rank |-> 3, shape |-> <<6, Len(q)>>, at |-> Transposed(RowsOf(q)).at] }

RawTensors == UNION { TensorsOf(q) : q \in UNION { [1..n -> Cands] : n \in 0..MaxCand } }

\* a tensor of rank 1
VectorTensor == [rank |-> 1, shape |-> <<6>>, at |-> CandA]

PostMeta == PreprocMeta(720, 1280)

ConfThresholds == { -2, 25, 80 }
ClassLists == { <<0, 1, 2, 3, 4>>, <<1>> }

\* lines 57-66: yolo_raw.shape[1] raises IndexError on a vector
ShapeRaises(t) == t.rank = 1

\* lines 57-66: drop the batch dimension, transpose if rows < columns
Oriented(t) ==
    LET m == [shape |-> t.shape, at |-> t.at]
    IN  IF m.shape[1] < m.shape[2] THEN Transposed(m) ELSE m

\* np.argmax over class_probs[i]: the first index holding the largest score
RECURSIVE ArgmaxFrom(_, _, _)
ArgmaxFrom(probs, j, best) ==
    IF j > Len(probs) THEN best - 1
    ELSE IF probs[j] > probs[best] THEN ArgmaxFrom(probs, j + 1, j)
    ELSE ArgmaxFrom(probs, j + 1, best)

\* one candidate row as lines 79-84 and 103-107 read it
Candidate(row) ==
    LET class_probs == SubSeq(row, 5, Len(row))
        class_id == ArgmaxFrom(class_probs, 2, 1)
    IN  [box  |-> << row[1] - row[3] \div 2, row[2] - row[4] \div 2,
                     row[1] + row[3] \div 2, row[2] + row[4] \div 2 >>,
         conf |-> class_probs[class_id + 1],
         cls  |-> class_id]

InList(x, list) == \E i \in DOMAIN list : list[i] = x

\* variant: the class mask left out of valid_mask
ValidConfidenceOnly(c, thr, classes) == c.conf > thr

\* valid_mask = class_mask & confidence_mask
Valid(c, thr, classes) == InList(c.cls, classes) /\ c.conf > thr

\* the empty DETECTIONS tensor, np.zeros((0, 6))
NoDetections == [shape |-> <<0, 6>>, rows |-> <<>>]

\* lines 118-125 for the kept indices keep of the filtered candidates cs
Detections(cs, keep, meta) ==
    LET kept == [i \in 1..Len(keep) |-> cs[keep[i] + 1]]
        boxes_original ==
            letterbox_to_original(
                [i \in 1..Len(kept) |->
                    << RInt(kept[i].box[1]), RInt(kept[i].box[2]),
                       RInt(kept[i].box[3]), RInt(kept[i].box[4]) >>],
                meta).out
    IN  [shape |-> <<Len(keep), 6>>,
         rows  |-> [i \in 1..Len(kept) |->
                      [box |-> boxes_original[i], conf |-> kept[i].conf,
                       cls |-> kept[i].cls]]]

\* the body of "for request in requests": the outcomes it can have, each
\* either raised or an output tensor
Decode(req, thr, classes, iouthr) ==
    IF ShapeRaises(req.yolo_raw) THEN { [raised |-> TRUE, out |-> NoDetections] }
    ELSE LET m == Oriented(req.yolo_raw)
         IN  IF m.shape[1] = 0
             THEN { [raised |-> FALSE, out |-> NoDetections] }
             ELSE IF m.shape[2] <= 4
             \* np.max over an axis of length 0 raises ValueError
             THEN { [raised |-> TRUE, out |-> NoDetections] }
             ELSE LET all == [i \in 1..m.shape[1] |-> Candidate(m.at[i])]
                      cs  == SelectSeq(all, LAMBDA c : Valid(c, thr, classes))
                  IN  IF Len(cs) = 0
                      THEN { [raised |-> FALSE, out |-> NoDetections] }
                      ELSE { [raised |-> FALSE,
                              out |-> Detections(cs,
                                        _nms([i \in 1..Len(cs) |-> cs[i].box],
                                             indices, iouthr),
                                        req.meta)] :
                             indices \in Argsort([i \in 1..Len(cs) |-> cs[i].conf]) }

\* the request loop from request i on: the response lists execute can return;
\* an exception leaves execute and nothing is returned
RECURSIVE PostRun(_, _, _, _, _)
PostRun(requests, i, thr, classes, iouthr) ==
    IF i > Len(requests) THEN { [raised |-> FALSE, outs |-> <<>>] }
    ELSE UNION {
           IF d.raised THEN { [raised |-> TRUE, outs |-> <<>>] }
           ELSE { IF rest.raised THEN rest
                  ELSE [raised |-> FALSE, outs |-> <<d.out>> \o rest.outs] :
                  rest \in PostRun(requests, i + 1, thr, classes, iouthr) } :
           d \in Decode(requests[i], thr, classes, iouthr) }

\* initialize: the three parameters are parsed and stored as they come
PostInit(thr, iouthr, classes) ==
    /\ conf_threshold = thr
    /\ nms_threshold = iouthr
    /\ track_classes = classes

PostIdle ==
    /\ PostInit(25, <<45, 100>>, <<0, 1, 2, 3, 4>>)
    /\ pp_requests = <<>>
    /\ pp_responses = [raised |-> FALSE, outs |-> <<>>]
    /\ pp_pc = "idle"

PostExecute ==
    /\ pp_pc = "call"
    /\ pp_responses' \in PostRun(pp_requests, 1, conf_threshold, track_classes,
                                  nms_threshold)
    /\ pp_pc' = "done"
    /\ UNCHANGED <<conf_threshold, nms_threshold, track_classes, pp_requests>>

RECURSIVE SumOver(_, _)
SumOver(f, S) ==
    IF S = {} THEN 0
    ELSE LET x == CHOOSE y \in S : TRUE IN f[x] + SumOver(f, S \ {x})

\* the stages other than the tracker, at rest
stagesVars == <<nmsVars, lbVars, ppVars>>

\* no endless feed: the parities stay at 0
FeedIdle == live_feed = [s \in Streams |-> 0]

\* the painter has drawn nothing
PaintIdle ==
    /\ pt_req = <<>>
    /\ pt_drawn = <<>>
    /\ pt_pc = "idle"

\* a thread that is not inside execute
IdleThread ==
    [pc |-> "idle", rows |-> <<>>, used |-> {}, out |-> <<>>, j |-> 0, tid |-> 0,
     created |-> <<>>]

\* no thread is inside execute
ConcIdle ==
    /\ th = [t \in Threads |-> IdleThread]
    /\ th_pre = [tracks |-> <<>>, counter |-> 0]

SideIdle == FeedIdle /\ PaintIdle /\ ConcIdle

othersVars == <<stagesVars, sideVars>>

OthersIdle == NmsIdle /\ LbIdle /\ PostIdle /\ SideIdle

Init ==
    /\ \E thr \in IouThresholds, maxage \in MaxAges : TrackerInit(thr, maxage)
    /\ OthersIdle

Next ==
    \E n \in 1..MaxBatch :
        /\ SumOver(nframes, Streams) + n <= MaxReq
        /\ \E requests \in Batches(n) : Execute(requests)
        /\ UNCHANGED othersVars

Spec == Init /\ [][Next]_vars

\* the tracker at rest, for the specifications of the other stages
TrackerIdle == TrackerInit(<<45, 100>>, 30)

InitNms ==
    /\ TrackerIdle
    /\ nms_in \in NmsInputs \cup { NmsExample }
    /\ nms_keep = <<>>
    /\ nms_pc = "call"
    /\ nms_again = <<>>
    /\ LbIdle
    /\ PostIdle
    /\ SideIdle

NextNms == (NmsRun \/ NmsRerun) /\ UNCHANGED <<trackerVars, lbVars, ppVars, sideVars>>

SpecNms == InitNms /\ [][NextNms]_vars

----------------------------------------------------------------------------
(* The end-to-end scenario: stream 1 is fed the scripted frames 0..32 under *)
(* the default configuration while stream 2 receives arbitrary frames.      *)

E2EMaxAge == 30
E2EThreshold == <<45, 100>>
MaxOther == 1

E2ERow0 == [box |-> <<10, 10, 50, 50>>, conf |-> 90, cls |-> 0]
E2ERow1 == [box |-> <<12, 11, 52, 51>>, conf |-> 88, cls |-> 0]

E2ELastFrame == E2EMaxAge + 2

E2ERows(f) == IF f = 0 THEN <<E2ERow0>> ELSE IF f = 1 THEN <<E2ERow1>> ELSE <<>>

InitE2E ==
    /\ TrackerInit(E2EThreshold, E2EMaxAge)
    /\ OthersIdle

E2EOwn ==
    /\ nframes[1] <= E2ELastFrame
    /\ Execute(<<[seq_id |-> 1,
                  yolo_output |-> [wellformed |-> TRUE, rows |-> E2ERows(nframes[1])]]>>)
    /\ UNCHANGED othersVars

E2EOther ==
    /\ nframes[2] < MaxOther
    /\ \E t \in Tensors : Execute(<<[seq_id |-> 2, yolo_output |-> t]>>)
    /\ UNCHANGED othersVars

NextE2E == E2EOwn \/ E2EOther

SpecE2E == InitE2E /\ [][NextE2E]_vars

----------------------------------------------------------------------------
(* Requests that fail: one stream receives, one call after the other, lists *)
(* of requests whose tensors are a frame with one detection, an empty       *)
(* frame, a tensor that cannot be sliced, or a tensor of rank 3.            *)

RowA == [box |-> BoxA, conf |-> 90, cls |-> 0]

\* the one row of a tensor of shape [1, 6, 2]
MatrixRow == [box |-> <<0, 0, 0, 0, 4, 4, 1, 1>>, conf |-> 90, cls |-> 0]

FailTensors ==
    { [wellformed |-> TRUE, rows |-> <<>>],
      [wellformed |-> TRUE, rows |-> <<RowA>>],
      [wellformed |-> TRUE, rows |-> <<MatrixRow>>],
      [wellformed |-> FALSE, rows |-> <<>>] }

FailRequests == [seq_id : {1}, yolo_output : FailTensors]

InitFail ==
    /\ \E maxage \in {0, 1} : TrackerInit(<<1, 2>>, maxage)
    /\ OthersIdle

FailCall ==
    /\ ncalls < MaxCalls
    /\ \E n \in 1..MaxFailBatch :
           \E requests \in [1..n -> FailRequests] : Execute(requests)
    /\ UNCHANGED othersVars

SpecFail == InitFail /\ [][FailCall]_vars

----------------------------------------------------------------------------
(* Streams that keep receiving frames: the first MaxLive frames of a stream  *)
(* are arbitrary, every later one is empty, and the host never stops         *)
(* sending frames to a stream: live_feed[s] flips with every frame sent to   *)
(* stream s and flips for ever.  The counters of the history stop at their   *)
(* bounds, so that the endless run of empty frames stays within finitely     *)
(* many states.                                                              *)

MaxLive == 2

LiveTensors ==
    { [wellformed |-> TRUE, rows |-> r] :
        r \in { <<>>, <<RowA>>, <<[box |-> BoxB, conf |-> 80, cls |-> 1]>>,
                <<RowA, [box |-> BoxD, conf |-> 70, cls |-> 0]>> } }

\* the host has sent stream s one more frame
LiveFed(s) == live_feed' = [live_feed EXCEPT ![s] = 1 - @]

\* the ids a stream can have issued within its first MaxLive frames
LiveIds == 1..(2 * MaxLive)

InitLive ==
    /\ \E maxage \in {0, 1} : TrackerInit(<<1, 2>>, maxage)
    /\ OthersIdle

\* one call of execute with one request, the history counters saturating
LiveExecute(requests) ==
    /\ \E st \in { RunBatch([seq_tracks |-> seq_tracks, next_id |-> next_id,
                             outs |-> <<>>, raised |-> FALSE, issued |-> issued,
                             nframes |-> nframes, log |-> <<>>], requests, 1) } :
           /\ seq_tracks' = st.seq_tracks
           /\ next_id' = st.next_id
           /\ responses' = [raised |-> st.raised,
                            outs   |-> IF st.raised THEN <<>> ELSE st.outs]
           /\ log' = st.log
           /\ issued' = st.issued
           /\ nframes' = [s \in Streams |-> Min2(st.nframes[s], MaxLive)]
    /\ ncalls' = Min2(ncalls + 1, 2 * MaxLive)
    /\ UNCHANGED <<iou_threshold, max_age>>

\* the host sends stream s its next frame
LiveFrame(s) ==
    /\ \E t \in LiveTensors :
           /\ t.rows = <<>> \/ nframes[s] < MaxLive
           /\ LiveExecute(<<[seq_id |-> s, yolo_output |-> t]>>)
    /\ LiveFed(s)
    /\ UNCHANGED <<stagesVars, ptVars, concVars>>

NextLive == \E s \in Streams : LiveFrame(s)

\* every stream keeps receiving frames
SpecLive ==
    /\ InitLive
    /\ [][NextLive]_vars
    /\ \A s \in Streams : WF_feedVars(LiveFed(s))

----------------------------------------------------------------------------
(* The coordinate mapping on its own: a call with arbitrary canvas boxes and *)
(* metadata, or a box of a frame sent through the letterbox and back.        *)

InitLb ==
    /\ TrackerIdle
    /\ NmsIdle
    /\ PostIdle
    /\ SideIdle
    /\ lb_out = <<>>
    /\ \/ /\ lb_pc = "call"
          /\ lb_orig = <<>>
          /\ lb_meta \in LbMetas
          /\ lb_boxes \in UNION { [1..n -> CanvasBoxes] : n \in 0..MaxLbBoxes }
       \/ /\ lb_pc = "frame"
          /\ lb_meta = <<>>
          /\ lb_boxes = <<>>
          /\ \E f \in FrameSizes :
                 lb_orig \in [ih : {f[1]}, iw : {f[2]}, box : OrigBoxes(f[1], f[2])]

NextLb == (LbForward \/ LbToOriginal) /\ UNCHANGED <<trackerVars, nmsVars, ppVars, sideVars>>

SpecLb == InitLb /\ [][NextLb]_vars

----------------------------------------------------------------------------
(* The postproc stage on its own: one call of execute with one request, or *)
(* with a request followed by one whose tensor has no candidates or is a   *)
(* vector.                                                                 *)

PostRequests == [yolo_raw : RawTensors, meta : { PostMeta }]

\* a request with six candidates, one per row
SixCandidates ==
    [yolo_raw |-> [rank |-> 2, shape |-> <<6, 6>>,
                   at |-> <<CandA, CandB, CandC, CandC, CandB, CandA>>],
     meta |-> PostMeta]

\* what may follow it in a batch: no candidates, or a vector
SecondRequests ==
    [yolo_raw : TensorsOf(<<>>) \cup { VectorTensor }, meta : { PostMeta }]

InitPost ==
    /\ TrackerIdle
    /\ NmsIdle
    /\ LbIdle
    /\ SideIdle
    /\ \E thr \in ConfThresholds, classes \in ClassLists :
           PostInit(thr, <<45, 100>>, classes)
    /\ pp_requests \in
           { <<r>> : r \in PostRequests }
           \cup { <<SixCandidates, f>> : f \in SecondRequests }
    /\ pp_responses = [raised |-> FALSE, outs |-> <<>>]
    /\ pp_pc = "call"

NextPost == PostExecute /\ UNCHANGED <<trackerVars, nmsVars, lbVars, sideVars>>

SpecPost == InitPost /\ [][NextPost]_vars

----------------------------------------------------------------------------
(* letterbox_to_original / TritonPythonModel.execute (painter) *)

\* boxes_orig = letterbox_to_original(boxes.astype(np.float32), meta): the
\* painter's own copy of the function, the same arithmetic on meta[:10]
PainterProjected(boxes, meta) ==
    [i \in DOMAIN boxes |-> ToOriginalRow(boxes[i], meta)]

\* astype(int) of one coordinate: truncation towards zero
AsInt(v) == IF v[1] >= 0 THEN v[1] \div v[2] ELSE -((-v[1]) \div v[2])

\* x1,y1,x2,y2 = box.astype(int); cv2.rectangle(out, (x1,y1), (x2,y2), ..)
Rectangle(box) == << AsInt(box[1]), AsInt(box[2]), AsInt(box[3]), AsInt(box[4]) >>

\* the body of "for req in requests": what is drawn on the frame, box by box
Drawn(req) ==
    LET boxes_orig == PainterProjected(req.tboxes, req.meta)
    IN  [i \in DOMAIN boxes_orig |->
            [rect |-> Rectangle(boxes_orig[i]), tid |-> req.tids[i],
             cid |-> req.tclsid[i], conf |-> req.confidence[i]]]

\* the request the pipeline hands to the painter: the frame's META and the
\* tracker's TBOXES, TIDS, TCLSID and CONFIDENCE
PainterRequest(meta, out) ==
    [meta       |-> meta,
     tboxes     |-> [i \in DOMAIN out |-> out[i].box],
     tids       |-> [i \in DOMAIN out |-> out[i].id],
     tclsid     |-> [i \in DOMAIN out |-> out[i].cls],
     confidence |-> [i \in DOMAIN out |-> out[i].conf]]

PainterExecute ==
    /\ pt_pc = "idle"
    /\ ncalls = 1
    /\ ~responses.raised
    /\ pt_req' = PainterRequest(pp_requests[1].meta, responses.outs[1])
    /\ pt_drawn' = Drawn(pt_req')
    /\ pt_pc' = "done"

----------------------------------------------------------------------------
(* The pipeline postproc -> tracker -> painter for the first frame of       *)
(* stream 1: postproc decodes six candidates, its DETECTIONS are the        *)
(* tracker's YOLO_OUTPUT, and the tracker's outputs go to the painter with  *)
(* the frame's metadata.                                                    *)

MaxPaint == 2

\* a candidate in the middle of the canvas
CandMid == <<320, 320, 100, 100, 90, 10>>

PaintCands == { CandA, CandB, CandMid }

\* six candidates, one per row: the first MaxPaint vary, the others are CandC
PaintTensors ==
    { [rank |-> 2, shape |-> <<MaxPaint + 4, 6>>,
       at |-> [i \in 1..(MaxPaint + 4) |-> IF i <= MaxPaint THEN f[i] ELSE CandC]] :
      f \in [1..MaxPaint -> PaintCands] }

\* landscape, portrait and square frames
PaintMetas == { PreprocMeta(720, 1280), PreprocMeta(640, 480), PreprocMeta(640, 640) }

InitPaint ==
    /\ TrackerIdle
    /\ NmsIdle
    /\ LbIdle
    /\ SideIdle
    /\ \E thr \in ConfThresholds, classes \in ClassLists :
           PostInit(thr, <<45, 100>>, classes)
    /\ pp_requests \in { <<r>> : r \in [yolo_raw : PaintTensors, meta : PaintMetas] }
    /\ pp_responses = [raised |-> FALSE, outs |-> <<>>]
    /\ pp_pc = "call"

\* the tracker's execute on the DETECTIONS of postproc
PaintTrack ==
    /\ pp_pc = "done"
    /\ ~pp_responses.raised
    /\ ncalls = 0
    /\ Execute(<<[seq_id |-> 1,
                  yolo_output |-> [wellformed |-> TRUE,
                                   rows |-> pp_responses.outs[1].rows]]>>)

NextPaint ==
    \/ PostExecute /\ UNCHANGED <<trackerVars, nmsVars, lbVars, sideVars>>
    \/ PaintTrack /\ UNCHANGED <<stagesVars, sideVars>>
    \/ PainterExecute /\ UNCHANGED <<trackerVars, stagesVars, feedVars, concVars>>

SpecPaint == InitPaint /\ [][NextPaint]_vars

----------------------------------------------------------------------------
(* Two host threads inside the tracker's execute for frames of stream 1.    *)
(* execute takes no lock, so the threads interleave between statements: a   *)
(* step is line 67, the matching loop (lines 71-95), line 101, line 102,    *)
(* lines 103-108, or the pruning loop with the response (lines 113-147).    *)

ConcStream == 1

MaxConc == 2

ConcRows ==
    { [box |-> BoxA, conf |-> 90, cls |-> 0], [box |-> BoxD, conf |-> 70, cls |-> 0] }

\* the frames the two threads may carry
ConcFrames == { q \in SeqsUpTo(ConcRows, MaxConc) : NoRepeat(q) }

\* "for j, db in enumerate(boxes): if j in used: continue": the next j that
\* reaches line 101, or len(boxes)
RECURSIVE NextUnused(_, _, _)
NextUnused(rows, used, j) ==
    IF j >= Len(rows) \/ j \notin used THEN j ELSE NextUnused(rows, used, j + 1)

\* tracks[tid] = tr: a key the dict holds keeps its place, a new one goes last
DictSet(tracks, tid, tr) ==
    IF \E k \in DOMAIN tracks : tracks[k].id = tid
    THEN [k \in DOMAIN tracks |-> IF tracks[k].id = tid THEN tr ELSE tracks[k]]
    ELSE Append(tracks, tr)

\* where a thread goes after the loop head of lines 99-100
AtCreate(rows, j) == IF j < Len(rows) THEN "inc" ELSE "prune"

InitConc ==
    /\ \E maxage \in {0, 30} : TrackerInit(<<45, 100>>, maxage)
    /\ OthersIdle

\* an earlier frame of the stream, processed on its own
ConcEarlier ==
    /\ ncalls = 0
    /\ \A t \in Threads : th[t].pc = "idle"
    /\ Execute(<<[seq_id |-> ConcStream,
                  yolo_output |-> [wellformed |-> TRUE,
                                   rows |-> <<[box |-> BoxA, conf |-> 90, cls |-> 0]>>]]>>)
    /\ UNCHANGED concVars

\* the host calls execute on both threads, each with one frame of the stream
ThCall ==
    /\ \A t \in Threads : th[t].pc = "idle"
    /\ th' \in [Threads -> { [IdleThread EXCEPT !.pc = "call", !.rows = r] :
                              r \in ConcFrames }]
    /\ th_pre' = [tracks  |-> DictGet(seq_tracks, ConcStream, <<>>),
                  counter |-> DictGet(next_id, ConcStream, 0)]
    /\ UNCHANGED trackerVars

\* line 67: tracks = self.seq_tracks[seq_id], the defaultdict inserts the key
ThRead(t) ==
    /\ th[t].pc = "call"
    /\ seq_tracks' = DictPut(seq_tracks, ConcStream,
                             DictGet(seq_tracks, ConcStream, <<>>))
    /\ th' = [th EXCEPT ![t].pc = "match"]
    /\ UNCHANGED <<iou_threshold, max_age, next_id, responses, log, issued,
                   nframes, ncalls, th_pre>>

\* lines 71-95 on the shared dict
ThMatch(t) ==
    /\ th[t].pc = "match"
    /\ LET m == MatchPhase(seq_tracks[ConcStream], th[t].rows, iou_threshold)
           j == NextUnused(th[t].rows, m.used, 0)
       IN  /\ seq_tracks' = DictPut(seq_tracks, ConcStream, m.tracks)
           /\ th' = [th EXCEPT ![t].used = m.used, ![t].out = m.out, ![t].j = j,
                               ![t].pc = AtCreate(th[t].rows, j)]
    /\ UNCHANGED <<iou_threshold, max_age, next_id, responses, log, issued,
                   nframes, ncalls, th_pre>>

\* line 101: self.next_id[seq_id] += 1
ThInc(t) ==
    /\ th[t].pc = "inc"
    /\ next_id' = DictPut(next_id, ConcStream,
                          NextTid(DictGet(next_id, ConcStream, 0)))
    /\ th' = [th EXCEPT ![t].pc = "tid"]
    /\ UNCHANGED <<iou_threshold, max_age, seq_tracks, responses, log, issued,
                   nframes, ncalls, th_pre>>

\* line 102: tid = self.next_id[seq_id]
ThTid(t) ==
    /\ th[t].pc = "tid"
    /\ th' = [th EXCEPT ![t].tid = next_id[ConcStream], ![t].pc = "insert"]
    /\ UNCHANGED <<trackerVars, th_pre>>

\* lines 103-108: tracks[tid] = Track(db, tid) and the four appends
ThInsert(t) ==
    /\ th[t].pc = "insert"
    /\ LET row == th[t].rows[th[t].j + 1]
           j   == NextUnused(th[t].rows, th[t].used, th[t].j + 1)
       IN  /\ seq_tracks' = DictPut(seq_tracks, ConcStream,
                                DictSet(seq_tracks[ConcStream], th[t].tid,
                                        NewTrack(row.box, th[t].tid)))
           /\ th' = [th EXCEPT ![t].out = Emitted(@, th[t].tid, row),
                               ![t].created = Append(@, <<th[t].tid, th[t].j>>),
                               ![t].j = j,
                               ![t].pc = AtCreate(th[t].rows, j)]
    /\ issued' = [issued EXCEPT ![ConcStream] = Append(@, th[t].tid)]
    /\ UNCHANGED <<iou_threshold, max_age, next_id, responses, log, nframes,
                   ncalls, th_pre>>

\* lines 113-147: the pruning loop, and the response goes back to the host
ThPrune(t) ==
    /\ th[t].pc = "prune"
    /\ seq_tracks' = DictPut(seq_tracks, ConcStream,
                             Prune(seq_tracks[ConcStream], max_age))
    /\ responses' = [raised |-> FALSE, outs |-> <<th[t].out>>]
    /\ nframes' = [nframes EXCEPT ![ConcStream] = @ + 1]
    /\ ncalls' = ncalls + 1
    /\ th' = [th EXCEPT ![t].pc = "done"]
    /\ UNCHANGED <<iou_threshold, max_age, next_id, log, issued, th_pre>>

concRest == <<stagesVars, feedVars, ptVars>>

NextConc ==
    \/ ConcEarlier /\ UNCHANGED concRest
    \/ ThCall /\ UNCHANGED concRest
    \/ \E t \in Threads : ThRead(t) /\ UNCHANGED concRest
    \/ \E t \in Threads : ThMatch(t) /\ UNCHANGED concRest
    \/ \E t \in Threads : ThInc(t) /\ UNCHANGED concRest
    \/ \E t \in Threads : ThTid(t) /\ UNCHANGED concRest
    \/ \E t \in Threads : ThInsert(t) /\ UNCHANGED concRest
    \/ \E t \in Threads : ThPrune(t) /\ UNCHANGED concRest

SpecConc == InitConc /\ [][NextConc]_vars

----------------------------------------------------------------------------
(* Vocabulary of the properties *)

Ids(tracks) == { tracks[k].id : k \in DOMAIN tracks }

PosIn(tracks, tid) == CHOOSE k \in DOMAIN tracks : tracks[k].id = tid

TrackIn(tracks, tid) == tracks[PosIn(tracks, tid)]

MatchedIds(r) == { r.matched[i][1] : i \in DOMAIN r.matched }

MatchedDets(r) == { r.matched[i][2] : i \in DOMAIN r.matched }

\* the records of the last execute call whose request was processed
Done == { k \in DOMAIN log : ~log[k].failed }

\* the store of a stream, read without inserting
Store(s) == DictGet(seq_tracks, s, <<>>)

----------------------------------------------------------------------------
(* Properties of the tracker *)

\* C1: within a stream the ids given to new tracks are pairwise distinct and
\* strictly increasing in creation order, so the id of a pruned track is never
\* given to a later track; the ids in the store are distinct and were issued.
C1_IdsIncrease ==
    \A s \in Streams :
        /\ \A a, b \in DOMAIN issued[s] : a < b => issued[s][a] < issued[s][b]
        /\ \A a, b \in DOMAIN Store(s) : a < b => Store(s)[a].id < Store(s)[b].id
        /\ Ids(Store(s)) \subseteq { issued[s][a] : a \in DOMAIN issued[s] }

\* a frame creates a track after an earlier track of the stream was pruned
C1_Witness ==
    \E k \in Done :
        /\ log[k].created # <<>>
        /\ \E a \in DOMAIN issued[log[k].seq_id] :
               /\ issued[log[k].seq_id][a] < log[k].created[1][1]
               /\ issued[log[k].seq_id][a] \notin Ids(log[k].pre)

\* C2: in every frame each track that existed before it is either matched and
\* ends with miss = 0 or unmatched and ends with miss one greater than before,
\* and every track whose miss then exceeds max_age is gone from the store by
\* the end of the same frame.
C2_MissStep ==
    \A k \in Done :
        LET r == log[k] IN
        /\ Len(r.mid) >= Len(r.pre)
        /\ \A n \in DOMAIN r.pre :
               /\ r.mid[n].id = r.pre[n].id
               /\ r.pre[n].id \in MatchedIds(r) => r.mid[n].miss = 0
               /\ r.pre[n].id \notin MatchedIds(r) => r.mid[n].miss = r.pre[n].miss + 1
        /\ \A n \in DOMAIN r.mid :
               /\ r.mid[n].miss > max_age => r.mid[n].id \notin Ids(r.post)
               /\ r.mid[n].id \in Ids(r.post) => TrackIn(r.post, r.mid[n].id) = r.mid[n]
        /\ Ids(r.post) \subseteq Ids(r.mid)

\* one frame matches a track and prunes another one
C2_Witness ==
    \E k \in Done :
        LET r == log[k] IN
        /\ \E n \in DOMAIN r.pre :
               r.pre[n].id \in MatchedIds(r) /\ r.mid[n].miss = 0
        /\ \E n \in DOMAIN r.pre :
               r.pre[n].id \notin MatchedIds(r) /\ r.pre[n].id \notin Ids(r.post)

\* C3 as stated: an unmatched track stays while its consecutive misses are
\* fewer than max_age and is removed in the frame in which they reach max_age.
C3_PrunedAtMaxAge ==
    \A k \in Done :
        LET r == log[k] IN
        \A n \in DOMAIN r.pre :
            r.pre[n].id \notin MatchedIds(r) =>
                /\ r.mid[n].miss < max_age => r.pre[n].id \in Ids(r.post)
                /\ r.mid[n].miss = max_age => r.pre[n].id \notin Ids(r.post)

\* C3 amended: an unmatched track stays while its consecutive misses are at
\* most max_age and is removed in the frame in which they reach max_age + 1,
\* not in an earlier or a later frame.
C3_PrunedAfterMaxAge ==
    \A k \in Done :
        LET r == log[k] IN
        \A n \in DOMAIN r.pre :
            r.pre[n].id \notin MatchedIds(r) =>
                /\ r.mid[n].miss <= max_age => r.pre[n].id \in Ids(r.post)
                /\ r.pre[n].id \notin Ids(r.post) => r.mid[n].miss = max_age + 1

\* an unmatched track is removed as its misses reach max_age + 1
C3_Witness ==
    \E k \in Done :
        LET r == log[k] IN
        \E n \in DOMAIN r.pre :
            /\ r.pre[n].id \notin MatchedIds(r)
            /\ r.mid[n].miss = max_age + 1
            /\ r.pre[n].id \notin Ids(r.post)

\* the record of the last call, when it was a frame of stream 1
E2ELast == IF log # <<>> /\ log[Len(log)].seq_id = 1 THEN log[Len(log)].out ELSE <<>>

E2EJustRan == log # <<>> /\ log[Len(log)].seq_id = 1

\* C4: on a fresh stream with iou_threshold 0.45 and max_age 30, frame 0 with
\* (10,10,50,50) emits id 1; frame 1 with (12,11,52,51) emits id 1 again with
\* the box moved and miss 0; the empty frames 2..32 emit nothing and raise the
\* miss of track 1 by one each; track 1 is in the store after frame 31 with
\* miss 30 and the store is empty after frame 32.
C4_EndToEnd ==
    LET f == nframes[1] IN
    /\ f = 1 => /\ Store(1) = << [box |-> <<10, 10, 50, 50>>, id |-> 1, age |-> 0, miss |-> 0] >>
                /\ E2EJustRan => E2ELast = << [id |-> 1, box |-> <<10, 10, 50, 50>>, cls |-> 0, conf |-> 90] >>
    /\ f = 2 => /\ Store(1) = << [box |-> <<12, 11, 52, 51>>, id |-> 1, age |-> 1, miss |-> 0] >>
                /\ E2EJustRan => E2ELast = << [id |-> 1, box |-> <<12, 11, 52, 51>>, cls |-> 0, conf |-> 88] >>
    /\ (f >= 3 /\ f <= 32) =>
                /\ Store(1) = << [box |-> <<12, 11, 52, 51>>, id |-> 1, age |-> f - 1, miss |-> f - 2] >>
                /\ E2EJustRan => E2ELast = <<>>
    /\ f = 33 => /\ Store(1) = <<>>
                 /\ 1 \in DOMAIN seq_tracks
                 /\ E2EJustRan => E2ELast = <<>>
    /\ f >= 1 => issued[1] = <<1>>

\* frame 32 has been processed
C4_Witness == nframes[1] = 33 /\ E2EJustRan /\ Store(1) = <<>>

UsedBefore(r, n) ==
    { r.matched[i][2] : i \in { i \in DOMAIN r.matched : PosIn(r.pre, r.matched[i][1]) < n } }

Unused(r, n) == (0..(Len(r.rows) - 1)) \ UsedBefore(r, n)

IouOf(r, n, j) == _iou(r.pre[n].box, r.rows[j + 1].box)

\* the unused detections whose IoU with the track's last box is the highest
Highest(r, n) ==
    { j \in Unused(r, n) : \A j2 \in Unused(r, n) : ~IouGT(IouOf(r, n, j2), IouOf(r, n, j)) }

Qualifies(r, n) == \E j \in Highest(r, n) : IouGE(IouOf(r, n, j), iou_threshold)

Overlaps(r, n) == \E j \in Highest(r, n) : IouGT(IouOf(r, n, j), IouZero)

MatchedToHighest(r, n) ==
    \E i \in DOMAIN r.matched :
        /\ r.matched[i][1] = r.pre[n].id
        /\ r.matched[i][2] \in Highest(r, n)
        /\ r.mid[n].box = r.rows[r.matched[i][2] + 1].box
        /\ r.mid[n].miss = 0
        /\ \E o \in DOMAIN r.out :
               r.out[o] = [id   |-> r.pre[n].id,
                           box  |-> r.rows[r.matched[i][2] + 1].box,
                           cls  |-> r.rows[r.matched[i][2] + 1].cls,
                           conf |-> r.rows[r.matched[i][2] + 1].conf]

NotMatched(r, n) ==
    /\ r.pre[n].id \notin MatchedIds(r)
    /\ r.mid[n].miss = r.pre[n].miss + 1
    /\ r.mid[n].box = r.pre[n].box

\* C6 as stated: for every iou_threshold, a visited track whose highest IoU
\* with an unused detection is >= iou_threshold is matched to that detection
\* (box taken, miss 0, entry emitted); otherwise it is not matched and its
\* miss is incremented.
C6_MatchIffAtThreshold ==
    \A k \in Done : \A n \in DOMAIN log[k].pre :
        IF Qualifies(log[k], n) THEN MatchedToHighest(log[k], n)
        ELSE NotMatched(log[k], n)

\* C6 amended: the track is matched to the highest-IoU unused detection when
\* that IoU is >= iou_threshold and greater than 0; otherwise it is not
\* matched and its miss is incremented.
C6_MatchIffAtThresholdAndOverlap ==
    \A k \in Done : \A n \in DOMAIN log[k].pre :
        IF Qualifies(log[k], n) /\ Overlaps(log[k], n) THEN MatchedToHighest(log[k], n)
        ELSE NotMatched(log[k], n)

\* a track takes the better of two overlapping unused detections, the later one
C6_Witness ==
    \E k \in Done : \E n \in DOMAIN log[k].pre :
        LET r == log[k] IN
        /\ MatchedToHighest(r, n)
        /\ \E j \in Highest(r, n) : \E j2 \in Unused(r, n) :
               /\ j2 < j
               /\ IouGT(IouOf(r, n, j), IouOf(r, n, j2))
               /\ IouGT(IouOf(r, n, j2), IouZero)

\* C7: every detection no track matched creates exactly one track, with the
\* stream's next sequential id (ids run 1, 2, 3, ... per stream), miss 0, age 0
\* and the detection's box, emitted with the detection's class and confidence;
\* a matched detection creates none.
C7_NewTracks ==
    /\ \A s \in Streams : \A a \in DOMAIN issued[s] : issued[s][a] = a
    /\ \A k \in Done :
        LET r    == log[k]
            free == (0..(Len(r.rows) - 1)) \ MatchedDets(r)
        IN
        /\ Len(r.created) = Cardinality(free)
        /\ Len(r.mid) = Len(r.pre) + Len(r.created)
        /\ r.counter = r.counter0 + Len(r.created)
        /\ \A i \in DOMAIN r.created :
               /\ r.created[i][2] \in free
               /\ \A i2 \in DOMAIN r.created : i < i2 => r.created[i][2] < r.created[i2][2]
               /\ r.created[i][1] = r.counter0 + i
               /\ r.mid[Len(r.pre) + i] =
                      [box |-> r.rows[r.created[i][2] + 1].box, id |-> r.counter0 + i,
                       age |-> 0, miss |-> 0]
               /\ \E o \in DOMAIN r.out :
                      r.out[o] = [id   |-> r.counter0 + i,
                                  box  |-> r.rows[r.created[i][2] + 1].box,
                                  cls  |-> r.rows[r.created[i][2] + 1].cls,
                                  conf |-> r.rows[r.created[i][2] + 1].conf]

\* a frame on a stream that already issued ids matches one detection and
\* creates a track for another
C7_Witness ==
    \E k \in Done :
        /\ log[k].matched # <<>>
        /\ log[k].created # <<>>
        /\ log[k].counter0 >= 1

\* C8: a frame's output lists the tracks matched in it, in visiting order,
\* then the tracks created in it, in detection index order; a track neither
\* matched nor created whose miss does not exceed max_age stays in the store
\* with its box unchanged and is absent from the output.
C8_OutputOrder ==
    \A k \in Done :
        LET r == log[k] IN
        /\ Len(r.out) = Len(r.matched) + Len(r.created)
        /\ \A i \in DOMAIN r.matched :
               /\ r.out[i].id = r.matched[i][1]
               /\ r.out[i].box = r.rows[r.matched[i][2] + 1].box
               /\ \A i2 \in DOMAIN r.matched :
                      i < i2 => PosIn(r.pre, r.matched[i][1]) < PosIn(r.pre, r.matched[i2][1])
        /\ \A i \in DOMAIN r.created :
               /\ r.out[Len(r.matched) + i].id = r.created[i][1]
               /\ r.out[Len(r.matched) + i].box = r.rows[r.created[i][2] + 1].box
               /\ \A i2 \in DOMAIN r.created : i < i2 => r.created[i][2] < r.created[i2][2]
        /\ \A n \in DOMAIN r.pre :
               (r.pre[n].id \notin MatchedIds(r) /\ r.mid[n].miss <= max_age) =>
                   /\ r.pre[n].id \in Ids(r.post)
                   /\ TrackIn(r.post, r.pre[n].id).box = r.pre[n].box
                   /\ \A o \in DOMAIN r.out : r.out[o].id # r.pre[n].id
        /\ ~responses.raised => responses.outs[k] = r.out

\* one frame matches a track, creates a track and keeps an unmatched track
C8_Witness ==
    \E k \in Done :
        LET r == log[k] IN
        /\ r.matched # <<>>
        /\ r.created # <<>>
        /\ \E n \in DOMAIN r.pre :
               r.pre[n].id \notin MatchedIds(r) /\ r.pre[n].id \in Ids(r.post)

\* C9: a frame with zero detections has an empty output, matches and creates
\* nothing, leaves the stream's id counter as it was, and adds exactly 1 to
\* the miss and to the age of every track the stream held before the frame.
C9_EmptyFrame ==
    \A k \in Done :
        LET r == log[k] IN
        r.rows = <<>> =>
            /\ r.out = <<>>
            /\ r.matched = <<>>
            /\ r.created = <<>>
            /\ r.counter = r.counter0
            /\ k = Len(log) => DictGet(next_id, r.seq_id, 0) = r.counter0
            /\ ~responses.raised => responses.outs[k] = <<>>
            /\ Len(r.mid) = Len(r.pre)
            /\ \A n \in DOMAIN r.pre :
                   /\ r.mid[n].miss = r.pre[n].miss + 1
                   /\ r.mid[n].age = r.pre[n].age + 1
                   /\ r.mid[n].id = r.pre[n].id
                   /\ r.mid[n].box = r.pre[n].box

\* an empty frame on a stream that holds a track, which survives it
C9_Witness ==
    \E k \in Done :
        /\ log[k].rows = <<>>
        /\ log[k].pre # <<>>
        /\ log[k].post # <<>>

\* the detection the n-th track of r.pre was matched to, as a set
MatchOf(r, n) ==
    { r.matched[i][2] : i \in { i \in DOMAIN r.matched : r.matched[i][1] = r.pre[n].id } }

\* detection j would have been the n-th track's match had it been free: its
\* IoU with the track passes the match test and the track got nothing, or
\* something with a strictly lower IoU
Wants(r, n, j) ==
    /\ IouGT(IouOf(r, n, j), IouZero)
    /\ IouGE(IouOf(r, n, j), iou_threshold)
    /\ \A jn \in MatchOf(r, n) : IouGT(IouOf(r, n, j), IouOf(r, n, jn))

\* the positions in r.pre of the tracks that took detection j
TakenBy(r, j) ==
    { PosIn(r.pre, r.matched[i][1]) : i \in { i \in DOMAIN r.matched : r.matched[i][2] = j } }

\* C22: tracks are visited in ascending id, which is the store's insertion
\* order, and matches are made in that order; a detection is taken by at most
\* one track, and a detection that a track would have matched (its IoU passes
\* the test and is strictly higher than that of the track's own match, if
\* any) but did not get was taken by a track visited earlier, never by one
\* visited later.
C22_GreedyInVisitingOrder ==
    \A k \in Done :
        LET r == log[k] IN
        /\ \A a, b \in DOMAIN r.pre : a < b => r.pre[a].id < r.pre[b].id
        /\ \A i, i2 \in DOMAIN r.matched :
               i < i2 => /\ PosIn(r.pre, r.matched[i][1]) < PosIn(r.pre, r.matched[i2][1])
                         /\ r.matched[i][2] # r.matched[i2][2]
        /\ \A n \in DOMAIN r.pre : \A j \in 0..(Len(r.rows) - 1) :
               Wants(r, n, j) =>
                   /\ TakenBy(r, j) # {}
                   /\ \A m \in TakenBy(r, j) : m < n

\* a later-visited track lost a detection to an earlier-visited one although
\* its own IoU with the detection is strictly higher, and went unmatched
C22_Witness ==
    \E k \in Done :
        LET r == log[k] IN
        \E n \in DOMAIN r.pre : \E j \in 0..(Len(r.rows) - 1) :
            /\ Wants(r, n, j)
            /\ MatchOf(r, n) = {}
            /\ \E m \in TakenBy(r, j) : m < n /\ IouGT(IouOf(r, n, j), IouOf(r, m, j))

\* the entries of a frame's output that carry detection j
EntriesOf(r, j) ==
    { o \in DOMAIN r.out :
        /\ r.out[o].box = r.rows[j + 1].box
        /\ r.out[o].cls = r.rows[j + 1].cls
        /\ r.out[o].conf = r.rows[j + 1].conf }

\* C23: in every frame each input detection contributes exactly one output
\* entry: the output has as many entries as the input has detections, no
\* detection is assigned to two tracks, and the track ids of the output are
\* pairwise distinct.
C23_OneEntryPerDetection ==
    \A k \in Done :
        LET r == log[k] IN
        /\ Len(r.out) = Len(r.rows)
        /\ \A j \in 0..(Len(r.rows) - 1) :
               /\ Cardinality(EntriesOf(r, j)) = 1
               /\ Cardinality(TakenBy(r, j)) <= 1
        /\ \A o, o2 \in DOMAIN r.out : o # o2 => r.out[o].id # r.out[o2].id
        /\ ~responses.raised => Len(responses.outs[k]) = Len(r.rows)

\* a frame of two detections on a stream holding two tracks: one detection
\* matched, the other one given a new track
C23_Witness ==
    \E k \in Done :
        LET r == log[k] IN
        /\ Len(r.rows) = 2
        /\ Len(r.pre) = 2
        /\ Len(r.matched) = 1
        /\ Len(r.created) = 1
        /\ Len(r.out) = 2

\* 0 <= miss <= max_age and miss <= age
MissInRange(tr) == 0 <= tr.miss /\ tr.miss <= max_age /\ tr.miss <= tr.age

\* C24: with max_age >= 0, after every completed frame every track of the
\* stream's store has 0 <= miss <= max_age and miss <= age, and every track id
\* of the frame's output is in the store with miss = 0.
C24_MissBoundedEmittedKept ==
    max_age >= 0 =>
        /\ \A s \in Streams : \A n \in DOMAIN Store(s) : MissInRange(Store(s)[n])
        /\ \A k \in Done :
               LET r == log[k] IN
               /\ \A n \in DOMAIN r.post : MissInRange(r.post[n])
               /\ \A o \in DOMAIN r.out :
                      /\ r.out[o].id \in Ids(r.post)
                      /\ TrackIn(r.post, r.out[o].id).miss = 0

\* under max_age = 1 a frame matches one track and leaves another one in the
\* store with miss = 1
C24_Witness ==
    /\ max_age = 1
    /\ \E k \in Done :
           LET r == log[k] IN
           /\ r.matched # <<>>
           /\ \E n \in DOMAIN r.post : r.post[n].miss = 1 /\ r.post[n].age = 1

\* the last call was a frame of stream s
LastFrameOf(s) == log # <<>> /\ log[Len(log)].seq_id = s /\ ~log[Len(log)].failed

\* the last call was a frame of stream s that matched track tid
MatchedNow(s, tid) == LastFrameOf(s) /\ tid \in MatchedIds(log[Len(log)])

\* C26: in a stream that keeps receiving frames, a track that no further
\* frame matches is eventually removed from the store; and a call changes the
\* store of no stream but those its requests name, so the frames of other
\* streams neither age nor remove a track and a stream that receives no frame
\* keeps its tracks.
C26_PruningLive ==
    /\ \A s \in Streams : \A tid \in LiveIds :
           (tid \in Ids(Store(s))) ~> (tid \notin Ids(Store(s)) \/ MatchedNow(s, tid))
    /\ [][ \A s \in Streams :
              (\A k \in DOMAIN log' : log'[k].seq_id # s) =>
                  DictGet(seq_tracks', s, <<>>) = DictGet(seq_tracks, s, <<>>) ]_vars

\* under max_age = 1 a frame of stream 1 removed a track that two frames in
\* a row did not match, while stream 2 still holds a track that was never
\* visited again
C26_Witness ==
    /\ max_age = 1
    /\ LastFrameOf(1)
    /\ \E n \in DOMAIN log[Len(log)].pre :
           /\ log[Len(log)].pre[n].miss = 1
           /\ log[Len(log)].pre[n].id \notin MatchedIds(log[Len(log)])
           /\ log[Len(log)].pre[n].id \notin Ids(Store(1))
    /\ \E n \in DOMAIN Store(2) : Store(2)[n].age = 0

----------------------------------------------------------------------------
(* Properties of non-maximum suppression *)

NmsIdx == 0..(Len(nms_in.boxes) - 1)

Kept == { nms_keep[i] : i \in DOMAIN nms_keep }

ScoreOf(a) == nms_in.scores[a + 1]

\* IoU(a, b) >= iou_threshold, as _nms computes it
Overlap(a, b) ==
    IouGE(_calculate_iou(nms_in.boxes[a + 1], nms_in.boxes[b + 1]), nms_in.iou_threshold)

\* C10 as stated: for every input and every pair A, B in it with
\* IoU(A,B) >= iou_threshold and score(A) > score(B), the result keeps A and
\* drops B, whatever other boxes are present.
C10_HigherSuppressesLower ==
    nms_pc = "done" =>
        \A a, b \in NmsIdx :
            (a # b /\ Overlap(a, b) /\ ScoreOf(a) > ScoreOf(b)) =>
                (a \in Kept /\ b \notin Kept)

\* C10 amended: the result keeps A and drops B provided no other box scoring
\* at least as high as A has IoU >= iou_threshold with A.
C10_UnsuppressedSuppressesLower ==
    nms_pc = "done" =>
        \A a, b \in NmsIdx :
            (/\ a # b /\ Overlap(a, b) /\ ScoreOf(a) > ScoreOf(b)
             /\ \A c \in NmsIdx \ {a} : ScoreOf(c) >= ScoreOf(a) => ~Overlap(c, a)) =>
                (a \in Kept /\ b \notin Kept)

\* three boxes under threshold 1/2: A, the B it suppresses, and a box that
\* overlaps neither enough and is kept as well
C10_Witness ==
    /\ nms_pc = "done"
    /\ Len(nms_in.boxes) = 3
    /\ nms_in.iou_threshold = <<1, 2>>
    /\ Cardinality(Kept) = 2
    /\ \E a, b \in NmsIdx :
           /\ a # b /\ Overlap(a, b) /\ ScoreOf(a) > ScoreOf(b)
           /\ \A c \in NmsIdx \ {a} : ScoreOf(c) >= ScoreOf(a) => ~Overlap(c, a)
           /\ a \in Kept /\ b \notin Kept

\* C11: non-maximum suppression is idempotent: for every input and every
\* iou_threshold, _nms run on the boxes a first run kept keeps every one of
\* them, so the kept set is unchanged.
C11_NmsIdempotent ==
    nms_pc = "again" =>
        /\ Len(nms_again) = Len(nms_keep)
        /\ { nms_again[i] : i \in DOMAIN nms_again } = 0..(Len(nms_keep) - 1)

\* a first run that dropped a box and kept two of equal score, run again
C11_Witness ==
    /\ nms_pc = "again"
    /\ Len(nms_keep) = 2
    /\ Len(nms_in.boxes) = 3
    /\ KeptScores[1] = KeptScores[2]
    /\ Len(nms_again) = 2

\* C12: when two detections have equal confidence the one with the lower
\* original index is taken first, so that of two equal-confidence boxes with
\* IoU >= iou_threshold the lower-index one is kept and the higher-index one
\* is dropped (stated for a pair that no other box scoring at least as high
\* overlaps, where the outcome rests on the order of the pair alone).
C12_TiesByIndex ==
    nms_pc = "done" =>
        \A a, b \in NmsIdx :
            (/\ a < b /\ ScoreOf(a) = ScoreOf(b) /\ Overlap(a, b)
             /\ \A c \in NmsIdx \ {a, b} :
                    ScoreOf(c) >= ScoreOf(a) => (~Overlap(c, a) /\ ~Overlap(c, b))) =>
                (a \in Kept /\ b \notin Kept)

\* the reference procedure on the index set rem: keep a highest-scoring
\* remaining detection, discard every remaining one whose IoU with it is
\* >= iou_threshold, repeat; the set of the lists it can produce
RECURSIVE Greedy(_, _)
Greedy(rem, kept) ==
    IF rem = {} THEN { kept }
    ELSE UNION { Greedy({ r \in rem \ {m} : ~Overlap(m, r) }, Append(kept, m)) :
                   m \in { x \in rem : \A y \in rem : ScoreOf(x) >= ScoreOf(y) } }

\* C13: _nms returns exactly a result of the reference greedy procedure on the
\* whole candidate set, class ids playing no part; for boxes (0,0,10,10) 0.9,
\* (1,1,11,11) 0.8, (50,50,60,60) 0.7 and iou_threshold 0.5 it keeps the first
\* and the third, in that order.
C13_GreedyReference ==
    nms_pc = "done" =>
        /\ nms_keep \in Greedy(NmsIdx, <<>>)
        /\ nms_in = NmsExample => nms_keep = <<0, 2>>

\* the numeric example has run
C13_Witness ==
    /\ nms_pc = "done"
    /\ nms_in = NmsExample
    /\ nms_keep = <<0, 2>>

\* C25: for every non-empty input _nms ends and returns a non-empty list of
\* distinct indices of the input, at most one per input box, that starts with
\* a highest-confidence detection, and no kept detection has
\* IoU >= iou_threshold with one kept before it; so the list is never empty
\* when at least one candidate was handed over.
C25_NmsKeepsSome ==
    (nms_pc = "done" /\ Len(nms_in.boxes) > 0) =>
        /\ nms_keep # <<>>
        /\ Len(nms_keep) <= Len(nms_in.boxes)
        /\ \A i \in DOMAIN nms_keep : nms_keep[i] \in NmsIdx
        /\ \A i, i2 \in DOMAIN nms_keep : i # i2 => nms_keep[i] # nms_keep[i2]
        /\ \A y \in NmsIdx : ScoreOf(nms_keep[1]) >= ScoreOf(y)
        /\ \A i, i2 \in DOMAIN nms_keep : i < i2 => ~Overlap(nms_keep[i], nms_keep[i2])

\* three boxes under threshold 1/2 of which two are kept, the first of them
\* not the first of the input, the third one dropped
C25_Witness ==
    /\ nms_pc = "done"
    /\ Len(nms_in.boxes) = 3
    /\ nms_in.iou_threshold = <<1, 2>>
    /\ Len(nms_keep) = 2
    /\ nms_keep[1] # 0
    /\ ScoreOf(nms_keep[1]) > ScoreOf(nms_keep[2])
    /\ \E b \in NmsIdx \ Kept : Overlap(nms_keep[1], b) \/ Overlap(nms_keep[2], b)

----------------------------------------------------------------------------
(* Properties of the coordinate mapping *)

\* lo <= v <= hi for a rational v and integers lo, hi
Within(v, lo, hi) == RLe(RInt(lo), v) /\ RLe(v, RInt(hi))

\* |p - q| <= 1/2
HalfPixelApart(p, q) ==
    LET d == RSub(p, q) IN RLe(<<Abs(d[1]), d[2]>>, <<1, 2>>)

\* C15: for every input box and every metadata with positive scale,
\* letterbox_to_original returns a box whose x1 and x2 lie in
\* [0, original_width - 1] and whose y1 and y2 lie in [0, original_height - 1],
\* and it does not modify the input box array.
C15_ClampedAndPure ==
    [][lb_pc = "call" =>
        /\ lb_boxes' = lb_boxes
        /\ Len(lb_out') = Len(lb_boxes)
        /\ \A i \in DOMAIN lb_out' :
              /\ Within(lb_out'[i][1], 0, lb_meta.iw - 1)
              /\ Within(lb_out'[i][3], 0, lb_meta.iw - 1)
              /\ Within(lb_out'[i][2], 0, lb_meta.ih - 1)
              /\ Within(lb_out'[i][4], 0, lb_meta.ih - 1)]_vars

\* a call whose box was clipped at both ends of the x range
C15_Witness ==
    /\ lb_pc = "done"
    /\ lb_orig = <<>>
    /\ Len(lb_out) = 1
    /\ RLt(lb_boxes[1][1], RInt(lb_meta.pad_l))
    /\ lb_out[1][1] = RInt(0)
    /\ lb_out[1][3] = RInt(lb_meta.iw - 1)
    /\ lb_meta.scale # RInt(1)

\* the box of the frame came back within half a pixel in coordinate c
Recovered(c) == HalfPixelApart(lb_out[1][c], lb_orig.box[c])

\* C16 as stated: for every frame size W x H and every box with coordinates
\* in [0,W) x [0,H), mapping it to the canvas with the parameters of preproc
\* and applying letterbox_to_original recovers each coordinate within 0.5 px.
C16_RoundTrip ==
    (lb_pc = "done" /\ lb_orig # <<>>) => \A c \in 1..4 : Recovered(c)

\* C16 amended: each x coordinate that is at most W - 0.5 and each y
\* coordinate that is at most H - 0.5 is recovered within 0.5 px.
C16_RoundTripBelowLastPixel ==
    (lb_pc = "done" /\ lb_orig # <<>>) =>
        /\ \A c \in {1, 3} :
              RLe(lb_orig.box[c], <<2 * lb_orig.iw - 1, 2>>) => Recovered(c)
        /\ \A c \in {2, 4} :
              RLe(lb_orig.box[c], <<2 * lb_orig.ih - 1, 2>>) => Recovered(c)

\* a padded, shrunk frame whose box ends half a pixel before the right edge
\* and comes back ending at the last pixel
C16_Witness ==
    /\ lb_pc = "done"
    /\ lb_orig # <<>>
    /\ lb_meta.pad_t > 0
    /\ RLt(lb_meta.scale, RInt(1))
    /\ lb_orig.box[3] = <<2 * lb_orig.iw - 1, 2>>
    /\ lb_out[1][3] = RInt(lb_orig.iw - 1)
    /\ lb_out[1][1] = lb_orig.box[1]

----------------------------------------------------------------------------
(* Properties of the postproc stage *)

\* the call returned responses
PostReturned == pp_pc = "done" /\ ~pp_responses.raised

\* the largest of the per-class scores of a candidate row
TopScore(row) ==
    CHOOSE v \in { row[j] : j \in 5..Len(row) } : \A j \in 5..Len(row) : v >= row[j]

\* the class index of that score: the first column holding it
TopClass(row) ==
    (CHOOSE j \in 5..Len(row) :
        row[j] = TopScore(row) /\ \A l \in 5..(j - 1) : row[l] # TopScore(row)) - 5

\* C14: every row of DETECTIONS has confidence strictly greater than
\* conf_threshold and a class id in the tracked-class list, the confidence
\* being the maximum of a candidate's per-class scores and the class id the
\* index of that maximum.
C14_OutputFiltered ==
    PostReturned =>
        \A k \in DOMAIN pp_responses.outs :
            \A i \in DOMAIN pp_responses.outs[k].rows :
                LET det == pp_responses.outs[k].rows[i]
                    m == Oriented(pp_requests[k].yolo_raw)
                IN  /\ det.conf > conf_threshold
                    /\ InList(det.cls, track_classes)
                    /\ \E r \in DOMAIN m.at :
                          /\ det.conf = TopScore(m.at[r])
                          /\ det.cls = TopClass(m.at[r])

\* a call under conf_threshold 0.25 and the default class list that returned
\* one detection, of class 1, while the input also held a candidate below the
\* threshold
C14_Witness ==
    /\ PostReturned
    /\ conf_threshold = 25
    /\ Len(track_classes) = 5
    /\ Len(pp_requests) = 1
    /\ pp_requests[1].yolo_raw.shape = <<MaxCand, 6>>
    /\ \E i \in DOMAIN pp_requests[1].yolo_raw.at : pp_requests[1].yolo_raw.at[i] = CandC
    /\ Len(pp_responses.outs[1].rows) = 1
    /\ pp_responses.outs[1].rows[1].cls = 1
    /\ pp_responses.outs[1].rows[1].conf = 80

\* a raw tensor with zero candidates: [0, 4 + num_classes] or its transpose
ZeroCandidates(t) == t.shape \in { <<0, 6>>, <<6, 0>> }

\* C17: when the raw tensor has zero candidates (shape [0, 4+num_classes] or
\* [4+num_classes, 0]) the stage returns an empty detection set of shape
\* (0, 6) for that request without raising an error.
C17_ZeroCandidatesEmpty ==
    (pp_pc = "done" /\ Len(pp_requests) = 1 /\ ZeroCandidates(pp_requests[1].yolo_raw)) =>
        pp_responses = [raised |-> FALSE, outs |-> << NoDetections >>]

----------------------------------------------------------------------------
(* Properties of concurrent updates of one stream *)

\* both threads have returned
BothDone == \A t \in Threads : th[t].pc = "done"

\* what the two frames leave behind when thread a's frame is processed
\* entirely before thread b's
InOrder(a, b) ==
    LET r1 == Track1(th_pre.tracks, th_pre.counter, th[a].rows, iou_threshold, max_age)
        r2 == Track1(r1.post, r1.counter, th[b].rows, iou_threshold, max_age)
    IN  [store   |-> r2.post,
         counter |-> r2.counter,
         out     |-> [t \in Threads |-> IF t = a THEN r1.out ELSE r2.out]]

\* what the two threads left behind
Concurrently ==
    [store   |-> Store(ConcStream),
     counter |-> DictGet(next_id, ConcStream, 0),
     out     |-> [t \in Threads |-> th[t].out]]

CreatedBy(t) == { th[t].created[i][1] : i \in DOMAIN th[t].created }

\* C21: two updates of one stream that the host runs concurrently are
\* serialized: once both have returned, the store, the id counter and the
\* outputs are those of one of the two sequential orders, and the two updates
\* have issued no track id in common.
C21_Serialized ==
    BothDone =>
        /\ Concurrently \in { InOrder(1, 2), InOrder(2, 1) }
        /\ CreatedBy(1) \cap CreatedBy(2) = {}

----------------------------------------------------------------------------
(* Properties of the pipeline postproc -> tracker -> painter *)

\* C27: along postproc -> tracker -> painter the inverse letterbox mapping is
\* applied exactly once: the rectangles the painter draws are the boxes the
\* tracker emitted (which postproc has already put in original-frame
\* coordinates), not those boxes with the padding subtracted and the scale
\* divided out a second time.
C27_MappedOnce ==
    pt_pc = "done" =>
        /\ Len(pt_drawn) = Len(responses.outs[1])
        /\ \A i \in DOMAIN pt_drawn :
               pt_drawn[i].rect = Rectangle(responses.outs[1][i].box)

----------------------------------------------------------------------------
(* Properties of configuration and of failing requests *)

\* C18: initialize rejects a negative conf_threshold, iou_threshold or
\* max_age: no stage runs execute under such a value.
C18_RejectsInvalidConfig ==
    /\ ncalls > 0 => (iou_threshold[1] >= 0 /\ max_age >= 0)
    /\ pp_pc = "done" => (conf_threshold >= 0 /\ nms_threshold[1] >= 0)

\* C19: a tracker request that fails while being processed leaves the tracker
\* state exactly as it was before that request: no track changed, created or
\* removed, no stream entry added, the id counter unchanged (stated for a
\* failing request that is the first of its call).
C19_FailureLeavesState ==
    [][(ncalls' = ncalls + 1 /\ Len(log') = 1 /\ log'[1].failed) =>
          (seq_tracks' = seq_tracks /\ next_id' = next_id)]_vars

\* C20: when one request of a batch fails, the other requests still get
\* their responses; a request whose track-store mutations were applied has
\* its response returned to the host.
C20_FailureIsolated ==
    \A k \in Done : ~responses.raised /\ k \in DOMAIN responses.outs

====
